---- MODULE Spec2Model ----
(***************************************************************************)
(* Signal generation of DefaultStrategy                                    *)
(* (src/freqtrade/user_data/strategies/DefaultStrategy.py).                *)
(*                                                                         *)
(* The state is the pandas DataFrame the three strategy callbacks receive  *)
(* and return (they mutate it in place) and the metadata dict passed       *)
(* alongside.  A DataFrame is a function from column names to columns, a   *)
(* column is a sequence of cells, row index i of pandas is position i+1.   *)
(*                                                                         *)
(* Numbers.  pandas/TA-Lib compute in IEEE doubles; the model computes in  *)
(* fixed point: candle fields are integers (price ticks), every indicator  *)
(* cell is an integer number of hundredths of a tick (Scaled), divisions   *)
(* round down.  NaN is a cell value of its own; every comparison with NaN  *)
(* is false and arithmetic with NaN gives NaN, as in IEEE/pandas.          *)
(*                                                                         *)
(* Library calls are modelled by what the called routine computes:         *)
(*   ta.RSI / ta.EMA / ta.MACD  TA-Lib's TA_RSI, TA_EMA, TA_MACD with the  *)
(*                              default periods 14 and 12/26/9             *)
(*   qtpylib.typical_price, bollinger_bands, crossed_above, crossed_below  *)
(*                              freqtrade.vendor.qtpylib.indicators        *)
(*   dataframe.loc[mask, col] = 1   pandas setting with enlargement        *)
(*                                                                         *)
(* TA_RSI gives 0.0 where gains and losses are both zero; rolling().std()  *)
(* is the sample deviation (ddof = 1), NaN for a single value.  The        *)
(* callbacks are modelled on non-empty DataFrames.                         *)
(***************************************************************************)
EXTENDS Integers, Sequences, FiniteSets, TLC

VARIABLES dataframe, metadata

vars == <<dataframe, metadata>>

(***************************************************************************)
(* Bounds of the candle series the model feeds to the strategy.            *)
(***************************************************************************)
\* longest candle series
MaxLen == 35
\* a series turns (jumps) at its last candle or this many candles before it
MaxTail == 1
\* close of the first candle, in ticks
BasePrice == 1000
\* per-candle drift of the close, in ticks
Step == 5

\* the declared warm-up window
startup_candle_count == 30

(***************************************************************************)
(* Cells.                                                                  *)
(***************************************************************************)
NaN == 0 - 2000000000

Scaled(x) == IF x = NaN THEN NaN ELSE 100 * x

\* a variant of Le: "not greater than", which is true of NaN
Le_not_greater(x, y) == ~(x # NaN /\ y # NaN /\ x > y)

\* IEEE comparisons: false as soon as one side is NaN
Gt(x, y) == x # NaN /\ y # NaN /\ x > y
Lt(x, y) == x # NaN /\ y # NaN /\ x < y
Ge(x, y) == x # NaN /\ y # NaN /\ x >= y
Le(x, y) == x # NaN /\ y # NaN /\ x <= y

Add(x, y) == IF x = NaN \/ y = NaN THEN NaN ELSE x + y
Sub(x, y) == IF x = NaN \/ y = NaN THEN NaN ELSE x - y

(***************************************************************************)
(* pandas Series operations used by the strategy and by qtpylib.           *)
(***************************************************************************)
\* a variant of Shift: Series.shift(-1), the cell of the next row
Shift_forward(s) == [i \in 1..Len(s) |-> IF i = Len(s) THEN NaN ELSE s[i + 1]]

\* Series.shift(1)
Shift(s) == [i \in 1..Len(s) |-> IF i = 1 THEN NaN ELSE s[i - 1]]

\* pd.Series(index=series1.index, data=scalar)
Broadcast(s, scalar) == [i \in 1..Len(s) |-> scalar]

SeriesGt(a, b) == [i \in 1..Len(a) |-> Gt(a[i], b[i])]
SeriesLt(a, b) == [i \in 1..Len(a) |-> Lt(a[i], b[i])]
SeriesGe(a, b) == [i \in 1..Len(a) |-> Ge(a[i], b[i])]
SeriesLe(a, b) == [i \in 1..Len(a) |-> Le(a[i], b[i])]
SeriesAnd(a, b) == [i \in 1..Len(a) |-> a[i] /\ b[i]]
SeriesOr(a, b) == [i \in 1..Len(a) |-> a[i] \/ b[i]]
SeriesAdd(a, b) == [i \in 1..Len(a) |-> Add(a[i], b[i])]
SeriesSub(a, b) == [i \in 1..Len(a) |-> Sub(a[i], b[i])]

\* a Series holds its cells: every cell is computed once
Series(s) == SubSeq(s, 1, Len(s))

\* n leading NaN cells followed by the cells of out, cut to length len
Pad(n, out, len) ==
    [i \in 1..len |-> IF i <= n \/ i - n > Len(out) THEN NaN ELSE out[i - n]]

\* qtpylib.crossed(series1, series2, "above"), series2 already a Series
crossed_above(series1, series2) ==
    SeriesAnd(SeriesGt(series1, series2), SeriesLe(Shift(series1), Shift(series2)))

\* a variant of crossed_below: "<=" for the current row
crossed_below_or_equal(series1, series2) ==
    [i \in 1..Len(series1) |->
        /\ Le(series1[i], series2[i])
        /\ Ge(Shift(series1)[i], Shift(series2)[i])]

\* qtpylib.crossed(series1, series2, "below"), series2 already a Series
crossed_below(series1, series2) ==
    SeriesAnd(SeriesLt(series1, series2), SeriesGe(Shift(series1), Shift(series2)))

(***************************************************************************)
(* TA-Lib.  Positions are 1-based: TA-Lib's index k is position k + 1.     *)
(***************************************************************************)
RECURSIVE SumRange(_, _, _)
SumRange(s, lo, hi) == IF lo > hi THEN 0 ELSE s[lo] + SumRange(s, lo + 1, hi)

\* the gain (sign = 1) or the loss (sign = -1) of the move into position today
Move(inReal, today, sign) ==
    LET d == inReal[today] - inReal[today - 1]
    IN  IF sign * d > 0 THEN sign * d ELSE 0

RECURSIVE SumMoves(_, _, _, _)
SumMoves(inReal, lo, hi, sign) ==
    IF lo > hi THEN 0 ELSE Move(inReal, lo, sign) + SumMoves(inReal, lo + 1, hi, sign)

\* 100 * (prevGain / (prevGain + prevLoss)), 0.0 when the sum is zero
RSI_value(prevGain, prevLoss) ==
    IF prevGain + prevLoss = 0 THEN 0
    ELSE (Scaled(100) * prevGain) \div (prevGain + prevLoss)

\* the main loop of TA_RSI: Wilder's smoothing, one output per candle
RECURSIVE RSI_loop(_, _, _, _, _, _)
RSI_loop(inReal, today, timeperiod, prevGain, prevLoss, out) ==
    IF today > Len(inReal) THEN out
    ELSE LET gain == (prevGain * (timeperiod - 1) + Move(inReal, today, 1)) \div timeperiod
             loss == (prevLoss * (timeperiod - 1) + Move(inReal, today, -1)) \div timeperiod
         IN  RSI_loop(inReal, today + 1, timeperiod, gain, loss,
                      Append(out, RSI_value(gain, loss)))

\* TA_RSI(inReal, timeperiod): NaN for the first timeperiod candles, the seed
\* is the simple average of the first timeperiod gains and losses
TA_RSI(inReal, timeperiod) ==
    IF Len(inReal) <= timeperiod THEN Broadcast(inReal, NaN)
    ELSE LET prevGain == SumMoves(inReal, 2, timeperiod + 1, 1) \div timeperiod
             prevLoss == SumMoves(inReal, 2, timeperiod + 1, -1) \div timeperiod
         IN  Pad(timeperiod,
                 RSI_loop(inReal, timeperiod + 2, timeperiod, prevGain, prevLoss,
                          <<RSI_value(prevGain, prevLoss)>>),
                 Len(inReal))

\* prevMA = ((inReal[today] - prevMA) * k) + prevMA with k = 2 / (period + 1)
RECURSIVE EMA_loop(_, _, _, _, _)
EMA_loop(inReal, today, period, prevMA, out) ==
    IF today > Len(inReal) THEN out
    ELSE LET ma == prevMA + ((inReal[today] - prevMA) * 2) \div (period + 1)
         IN  EMA_loop(inReal, today + 1, period, ma, Append(out, ma))

\* TA_INT_EMA from position start on: the seed is the simple average of the
\* period inputs ending at start; the result holds positions start..Len(inReal)
TA_INT_EMA(inReal, start, period) ==
    LET prevMA == SumRange(inReal, start - period + 1, start) \div period
    IN  EMA_loop(inReal, start + 1, period, prevMA, <<prevMA>>)

\* a variant of TA_EMA: seeded with the first input, no warm-up (as pandas ewm)
TA_EMA_unseeded(inReal, timeperiod) ==
    EMA_loop(inReal, 2, timeperiod, inReal[1], <<inReal[1]>>)

\* TA_EMA(inReal, timeperiod): NaN for the first timeperiod - 1 candles
TA_EMA(inReal, timeperiod) ==
    IF Len(inReal) < timeperiod THEN Broadcast(inReal, NaN)
    ELSE Pad(timeperiod - 1, TA_INT_EMA(inReal, timeperiod, timeperiod), Len(inReal))

\* TA_MACD(inReal, fast, slow, signal): both EMAs start at position slow, the
\* signal line is the EMA of their difference, and all three outputs start
\* together after slow - 1 + signal - 1 candles
TA_MACD(inReal, fastperiod, slowperiod, signalperiod) ==
    LET lookback == (slowperiod - 1) + (signalperiod - 1)
        nan == Broadcast(inReal, NaN)
    IN  IF Len(inReal) <= lookback
        THEN [macd |-> nan, macdsignal |-> nan, macdhist |-> nan]
        ELSE LET slowEMA == TA_INT_EMA(inReal, slowperiod, slowperiod)
                 fastEMA == TA_INT_EMA(inReal, slowperiod, fastperiod)
                 diff == SeriesSub(fastEMA, slowEMA)
                 sig == TA_INT_EMA(diff, signalperiod, signalperiod)
                 line == SubSeq(diff, signalperiod, Len(diff))
             IN  [macd |-> Pad(lookback, line, Len(inReal)),
                  macdsignal |-> Pad(lookback, sig, Len(inReal)),
                  macdhist |-> Pad(lookback, SeriesSub(line, sig), Len(inReal))]

(***************************************************************************)
(* qtpylib indicators.                                                     *)
(***************************************************************************)
\* (bars['high'] + bars['low'] + bars['close']) / 3.
typical_price(bars) ==
    Series([i \in 1..Len(bars["close"]) |->
        Scaled(bars["high"][i] + bars["low"][i] + bars["close"][i]) \div 3])

\* first position of the rolling window ending at i
WindowStart(i, window) == IF i > window THEN i - window + 1 ELSE 1

\* series.rolling(window, min_periods).mean()
rolling_mean(series, window, min_periods) ==
    [i \in 1..Len(series) |->
        LET lo == WindowStart(i, window)
            w == i - lo + 1
        IN  IF w < min_periods THEN NaN ELSE SumRange(series, lo, i) \div w]

RECURSIVE ISqrtSearch(_, _, _)
ISqrtSearch(n, lo, hi) ==
    IF lo >= hi THEN lo
    ELSE LET mid == (lo + hi + 1) \div 2
         IN  IF mid * mid <= n THEN ISqrtSearch(n, mid, hi)
             ELSE ISqrtSearch(n, lo, mid - 1)

\* the square root, rounded down
ISqrt(n) == ISqrtSearch(n, 0, 46340)

\* sum of squared deviations from m over positions lo..hi, in tenths of a tick
RECURSIVE SumSqDev(_, _, _, _)
SumSqDev(series, lo, hi, m) ==
    IF lo > hi THEN 0
    ELSE LET dev == (series[lo] - m) \div 10
         IN  dev * dev + SumSqDev(series, lo + 1, hi, m)

\* series.rolling(window, min_periods).std(): the sample deviation (ddof = 1),
\* NaN for a window holding a single value
rolling_std(series, window, min_periods) ==
    [i \in 1..Len(series) |->
        LET lo == WindowStart(i, window)
            w == i - lo + 1
            m == SumRange(series, lo, i) \div w
        IN  IF w < min_periods \/ w < 2 THEN NaN
            ELSE ISqrt((SumSqDev(series, lo, i, m) \div (w - 1)) * 100)]

\* qtpylib.bollinger_bands(series, window, stds): rolling mean and deviation
\* with min_periods = 1
bollinger_bands(series, window, stds) ==
    LET ma == Series(rolling_mean(series, window, 1))
        std == Series(rolling_std(series, window, 1))
        width ==
            Series([i \in 1..Len(series) |-> IF std[i] = NaN THEN NaN ELSE std[i] * stds])
    IN  [upper |-> SeriesAdd(ma, width), mid |-> ma, lower |-> SeriesSub(ma, width)]

(***************************************************************************)
(* DataFrame.                                                              *)
(***************************************************************************)
CandleColumns == {"date", "open", "high", "low", "close", "volume"}

IndicatorColumns ==
    {"rsi", "macd", "macdsignal", "macdhist",
     "bb_lowerband", "bb_middleband", "bb_upperband", "ema10", "ema50"}

\* number of rows
Rows(df) == Len(df["close"])

\* dataframe[col] = series
SetColumn(df, col, series) ==
    [c \in (DOMAIN df) \cup {col} |-> IF c = col THEN series ELSE df[c]]

\* a variant of LocSet: adds the value to the cell a marked row already holds
LocSet_accumulate(df, mask, col, value) ==
    SetColumn(df, col,
        [i \in 1..Len(df["close"]) |->
            IF mask[i]
            THEN IF col \in DOMAIN df /\ df[col][i] # NaN THEN df[col][i] + value ELSE value
            ELSE IF col \in DOMAIN df THEN df[col][i] ELSE NaN])

\* dataframe.loc[mask, col] = value: the rows of the mask get the value, the
\* other rows keep their cell; a column that does not exist yet is created
\* with NaN in the other rows
LocSet(df, mask, col, value) ==
    SetColumn(df, col,
        [i \in 1..Rows(df) |->
            IF mask[i] THEN value
            ELSE IF col \in DOMAIN df THEN df[col][i] ELSE NaN])

\* the price column of a DataFrame as TA-Lib's abstract API reads it
Real(df, col) == Series([i \in 1..Rows(df) |-> Scaled(df[col][i])])

(***************************************************************************)
(* DefaultStrategy.                                                        *)
(***************************************************************************)
IndicatorBank(df) ==
    LET rsi == TA_RSI(Real(df, "close"), 14)
        macd == TA_MACD(Real(df, "close"), 12, 26, 9)
        bollinger == bollinger_bands(typical_price(df), 20, 2)
        ema10 == TA_EMA(Real(df, "close"), 10)
        ema50 == TA_EMA(Real(df, "close"), 50)
    IN  [c \in (DOMAIN df) \cup IndicatorColumns |->
            CASE c = "rsi" -> rsi
              [] c = "macd" -> macd.macd
              [] c = "macdsignal" -> macd.macdsignal
              [] c = "macdhist" -> macd.macdhist
              [] c = "bb_lowerband" -> bollinger.lower
              [] c = "bb_middleband" -> bollinger.mid
              [] c = "bb_upperband" -> bollinger.upper
              [] c = "ema10" -> ema10
              [] c = "ema50" -> ema50
              [] OTHER -> df[c]]

\* a row of the candle series breaks the input contract: negative volume, or
\* a timestamp not after the previous one
InvalidRow(df, i) ==
    \/ df["volume"][i] < 0
    \/ i > 1 /\ df["date"][i] <= df["date"][i - 1]

\* a variant of populate_indicators: blanks the indicators of invalid rows
populate_indicators_masked(df, md) ==
    LET full == IndicatorBank(df)
    IN  [c \in DOMAIN full |->
            IF c \in IndicatorColumns
            THEN [i \in 1..Len(full[c]) |-> IF InvalidRow(df, i) THEN NaN ELSE full[c][i]]
            ELSE full[c]]

\* a variant of populate_indicators: ends with dataframe.dropna() on rsi
populate_indicators_dropna(df, md) ==
    LET full == IndicatorBank(df)
        keep == IF Len(full["rsi"]) > 14 THEN Len(full["rsi"]) - 14 ELSE 0
    IN  [c \in DOMAIN full |-> SubSeq(full[c], Len(full[c]) - keep + 1, Len(full[c]))]

populate_indicators(df, md) == IndicatorBank(df)

\* a variant of EntryMask: the volume condition is missing
EntryMask_no_volume(df) ==
    SeriesAnd(
        SeriesAnd(crossed_above(df["rsi"], Broadcast(df["rsi"], Scaled(30))),
                  SeriesGt(df["macd"], df["macdsignal"])),
        SeriesGt(Real(df, "close"), df["ema10"]))

\* the boolean row mask of the entry rule
EntryMask(df) ==
    SeriesAnd(
        SeriesAnd(
            SeriesAnd(crossed_above(df["rsi"], Broadcast(df["rsi"], Scaled(30))),
                      SeriesGt(df["macd"], df["macdsignal"])),
            SeriesGt(Real(df, "close"), df["ema10"])),
        SeriesGt(df["volume"], Broadcast(df["volume"], 0)))

populate_entry_trend(df, md) == LocSet(df, EntryMask(df), "enter_long", 1)

\* a variant of ExitMask: the band condition joined by "&" to the MACD one
ExitMask_band_and_macd(df) ==
    SeriesOr(
        crossed_above(df["rsi"], Broadcast(df["rsi"], Scaled(70))),
        SeriesAnd(SeriesGt(Real(df, "close"), df["bb_upperband"]),
                  crossed_below(df["macd"], df["macdsignal"])))

\* the boolean row mask of the exit rule
ExitMask(df) ==
    SeriesOr(
        SeriesOr(crossed_above(df["rsi"], Broadcast(df["rsi"], Scaled(70))),
                 SeriesGt(Real(df, "close"), df["bb_upperband"])),
        crossed_below(df["macd"], df["macdsignal"]))

\* a variant of populate_exit_trend: an exit clears the entry of the same row
populate_exit_trend_exclusive(df, md) ==
    LET out == LocSet(df, ExitMask(df), "exit_long", 1)
    IN  IF "enter_long" \in DOMAIN out
        THEN [out EXCEPT !["enter_long"] =
                [i \in 1..Len(@) |-> IF out["exit_long"][i] = 1 THEN NaN ELSE @[i]]]
        ELSE out

populate_exit_trend(df, md) == LocSet(df, ExitMask(df), "exit_long", 1)

(***************************************************************************)
(* The candle series handed to the strategy.  A series drifts by slope per *)
(* candle and turns once, tail candles before its last candle: the close   *)
(* jumps there, and the candle of the turn may carry an anomaly.           *)
(***************************************************************************)
Slopes == {0 - Step, 0, Step}

\* the candle of the turn: the jump of its close, in ticks, and its anomaly
Turns ==
    {<<0, "none">>, <<-40, "none">>, <<40, "none">>,
     <<40, "zero_volume">>, <<40, "negative_volume">>, <<0, "stale_date">>}

Pairs == {"BTC/USDT"}

CloseAt(i, n, slope, tail, jump) ==
    BasePrice + slope * (i - 1) + (IF i >= n - tail /\ i > 1 THEN jump ELSE 0)

Candles(n, slope, tail, turn) ==
    LET at == IF n - tail >= 1 THEN n - tail ELSE 1
        anomaly == turn[2]
        close == [i \in 1..n |-> CloseAt(i, n, slope, tail, turn[1])]
    IN  [c \in CandleColumns |->
            CASE c = "date" ->
                    [i \in 1..n |-> IF anomaly = "stale_date" /\ i = at /\ i > 1
                                    THEN 300 * (i - 2) ELSE 300 * i]
              [] c = "open" -> [i \in 1..n |-> IF i = 1 THEN close[1] ELSE close[i - 1]]
              [] c = "high" -> close
              [] c = "low" -> [i \in 1..n |-> close[i] - 6]
              [] c = "close" -> close
              [] c = "volume" ->
                    [i \in 1..n |-> IF i # at \/ anomaly \in {"none", "stale_date"} THEN 10
                                    ELSE IF anomaly = "zero_volume" THEN 0 ELSE -1]]

Init ==
    /\ \E n \in 1..MaxLen, slope \in Slopes, tail \in {0, MaxTail}, turn \in Turns :
          dataframe = Candles(n, slope, tail, turn)
    /\ \E pair \in Pairs : metadata = [pair |-> pair]

\* the caller runs populate_indicators on its DataFrame
CallPopulateIndicators ==
    /\ dataframe' = populate_indicators(dataframe, metadata)
    /\ UNCHANGED metadata

\* the caller runs populate_entry_trend; without the indicator columns the
\* column lookup raises KeyError and nothing is written
CallPopulateEntryTrend ==
    /\ {"rsi", "macd", "macdsignal", "ema10"} \subseteq DOMAIN dataframe
    /\ dataframe' = populate_entry_trend(dataframe, metadata)
    /\ UNCHANGED metadata

\* the caller runs populate_exit_trend; without the indicator columns the
\* column lookup raises KeyError and nothing is written
CallPopulateExitTrend ==
    /\ {"rsi", "bb_upperband", "macd", "macdsignal"} \subseteq DOMAIN dataframe
    /\ dataframe' = populate_exit_trend(dataframe, metadata)
    /\ UNCHANGED metadata

Next ==
    \/ CallPopulateIndicators
    \/ CallPopulateEntryTrend
    \/ CallPopulateExitTrend

Spec == Init /\ [][Next]_vars

(***************************************************************************)
(* Vocabulary of the properties.                                           *)
(***************************************************************************)
Has(col) == col \in DOMAIN dataframe

IndicatorsPresent == IndicatorColumns \subseteq DOMAIN dataframe

AllPresent == IndicatorsPresent /\ Has("enter_long") /\ Has("exit_long")

Positions == 1..Rows(dataframe)

Cell(col, i) == dataframe[col][i]

Defined(col, i) == Cell(col, i) # NaN

\* the candle columns of a DataFrame
CandlesOf(df) == [c \in CandleColumns |-> df[c]]

\* the first k rows of a DataFrame
HeadRows(df, k) == [c \in DOMAIN df |-> SubSeq(df[c], 1, k)]

\* one full evaluation: the three callbacks in the order freqtrade runs them
Pipeline(df, md) ==
    populate_exit_trend(populate_entry_trend(populate_indicators(df, md), md), md)

\* column col crossed above the constant level at position i, cell by cell
CrossedAboveLevelAt(col, level, i) ==
    /\ i > 1
    /\ Defined(col, i - 1) /\ Defined(col, i)
    /\ Cell(col, i - 1) <= Scaled(level)
    /\ Cell(col, i) > Scaled(level)

\* column a crossed below column b at position i, cell by cell
CrossedBelowAt(a, b, i) ==
    /\ i > 1
    /\ Defined(a, i - 1) /\ Defined(b, i - 1) /\ Defined(a, i) /\ Defined(b, i)
    /\ Cell(a, i - 1) >= Cell(b, i - 1)
    /\ Cell(a, i) < Cell(b, i)

\* the close of row i lies above the cell of column col
CloseAboveAt(col, i) == Defined(col, i) /\ Scaled(Cell("close", i)) > Cell(col, i)

\* the entry rule of the specification at position i
EntryRuleAt(i) ==
    /\ CrossedAboveLevelAt("rsi", 30, i)
    /\ Defined("macd", i) /\ Defined("macdsignal", i)
    /\ Cell("macd", i) > Cell("macdsignal", i)
    /\ CloseAboveAt("ema10", i)
    /\ Cell("volume", i) > 0

\* the exit rule of the specification at position i
ExitRuleAt(i) ==
    \/ CrossedAboveLevelAt("rsi", 70, i)
    \/ CloseAboveAt("bb_upperband", i)
    \/ CrossedBelowAt("macd", "macdsignal", i)

(***************************************************************************)
(* C1.  populate_entry_trend marks enter at a row if and only if RSI       *)
(* crossed above 30 there, macd > macdsignal, close > ema10 and            *)
(* volume > 0; every other row carries no enter mark.                      *)
(***************************************************************************)
C1_EnterIffRule ==
    (IndicatorsPresent /\ Has("enter_long")) =>
        \A i \in Positions :
            /\ Cell("enter_long", i) = 1 <=> EntryRuleAt(i)
            /\ ~EntryRuleAt(i) => Cell("enter_long", i) = NaN

\* an entry was marked at a row where RSI came from 30 or below
C1_Witness ==
    /\ IndicatorsPresent /\ Has("enter_long")
    /\ \E i \in Positions :
        /\ Cell("enter_long", i) = 1
        /\ Cell("rsi", i - 1) <= Scaled(30)
        /\ Cell("volume", i) > 0

(***************************************************************************)
(* C2.  populate_exit_trend marks exit at a row if and only if RSI crossed *)
(* above 70 there, or close > bb_upperband, or macd crossed below          *)
(* macdsignal; close above the upper band alone is enough.                 *)
(***************************************************************************)
C2_ExitIffRule ==
    (IndicatorsPresent /\ Has("exit_long")) =>
        \A i \in Positions :
            /\ Cell("exit_long", i) = 1 <=> ExitRuleAt(i)
            /\ ~ExitRuleAt(i) => Cell("exit_long", i) = NaN
            /\ CloseAboveAt("bb_upperband", i) => Cell("exit_long", i) = 1

\* an exit marked for the upper band alone: no crossover at that row
C2_Witness ==
    /\ IndicatorsPresent /\ Has("exit_long")
    /\ \E i \in Positions :
        /\ Cell("exit_long", i) = 1
        /\ CloseAboveAt("bb_upperband", i)
        /\ Defined("rsi", i) /\ Defined("macd", i)
        /\ ~CrossedAboveLevelAt("rsi", 70, i)
        /\ ~CrossedBelowAt("macd", "macdsignal", i)

C4_UndefinedGivesNoSignal ==
    IndicatorsPresent =>
        LET rsi == dataframe["rsi"]
            macd == dataframe["macd"]
            sig == dataframe["macdsignal"]
            close == Real(dataframe, "close")
            above30 == crossed_above(rsi, Broadcast(rsi, Scaled(30)))
            above70 == crossed_above(rsi, Broadcast(rsi, Scaled(70)))
            below == crossed_below(macd, sig)
            entryMask == Series(EntryMask(dataframe))
            exitMask == Series(ExitMask(dataframe))
        IN  \A i \in Positions :
            LET rsiUndef == i = 1 \/ ~Defined("rsi", i) \/ ~Defined("rsi", i - 1)
                macdUndef == ~Defined("macd", i) \/ ~Defined("macdsignal", i)
                crossUndef ==
                    i = 1 \/ macdUndef \/ ~Defined("macd", i - 1)
                          \/ ~Defined("macdsignal", i - 1)
            IN  /\ rsiUndef => ~above30[i] /\ ~above70[i]
                /\ macdUndef => ~SeriesGt(macd, sig)[i]
                /\ crossUndef => ~below[i]
                /\ ~Defined("ema10", i) => ~SeriesGt(close, dataframe["ema10"])[i]
                /\ ~Defined("bb_upperband", i) =>
                        ~SeriesGt(close, dataframe["bb_upperband"])[i]
                /\ entryMask[i] \in BOOLEAN
                /\ exitMask[i] \in BOOLEAN
                /\ Has("enter_long") =>
                        ((rsiUndef \/ macdUndef \/ ~Defined("ema10", i)) =>
                            Cell("enter_long", i) = NaN)
                /\ Has("exit_long") =>
                        /\ (rsiUndef /\ crossUndef) =>
                                (Cell("exit_long", i) = 1 <=> CloseAboveAt("bb_upperband", i))
                        /\ (rsiUndef /\ crossUndef /\ ~Defined("bb_upperband", i)) =>
                                Cell("exit_long", i) = NaN

\* an exit decided by the band alone at a row whose macd is undefined, beside
\* a first row whose band is undefined and which carries no mark
C4_Witness ==
    /\ AllPresent
    /\ ~Defined("bb_upperband", 1) /\ Cell("exit_long", 1) = NaN
    /\ \E i \in Positions :
        /\ ~Defined("macd", i) /\ ~Defined("rsi", i)
        /\ Cell("exit_long", i) = 1
        /\ Cell("enter_long", i) = NaN

(***************************************************************************)
(* C5.  As stated: an invalid series (negative volume, timestamps not      *)
(* increasing) is rejected at entry; no indicator or signal column is      *)
(* computed for it.                                                        *)
(***************************************************************************)
InvalidInput == \E i \in Positions : InvalidRow(dataframe, i)

Repaired(df) ==
    [c \in CandleColumns |->
        CASE c = "volume" -> [i \in 1..Rows(df) |-> IF df[c][i] < 0 THEN 10 ELSE df[c][i]]
          [] c = "date" -> [i \in 1..Rows(df) |-> 300 * i]
          [] OTHER -> df[c]]

C6_CrossoversMirror ==
    IndicatorsPresent =>
        LET rsi == dataframe["rsi"]
            operands ==
                {<<rsi, Broadcast(rsi, Scaled(30))>>, <<rsi, Broadcast(rsi, Scaled(70))>>,
                 <<dataframe["macd"], dataframe["macdsignal"]>>}
        IN  \A p \in operands :
                /\ \A i \in Positions :
                    /\ ~(crossed_above(p[1], p[2])[i] /\ crossed_below(p[1], p[2])[i])
                    /\ ~(crossed_above(p[2], p[1])[i] /\ crossed_below(p[2], p[1])[i])
                /\ crossed_above(p[1], p[2]) = crossed_below(p[2], p[1])
                /\ crossed_above(p[2], p[1]) = crossed_below(p[1], p[2])

\* macd crossed below macdsignal at a row, seen from both sides
C6_Witness ==
    /\ IndicatorsPresent
    /\ \E i \in Positions :
        /\ crossed_below(dataframe["macd"], dataframe["macdsignal"])[i]
        /\ crossed_above(dataframe["macdsignal"], dataframe["macd"])[i]
        /\ Cell("macd", i - 1) >= Cell("macdsignal", i - 1)

(***************************************************************************)
(* C7.  Enter and exit are independent: a row may carry both marks, and no *)
(* later call of either signal function (or of populate_indicators)        *)
(* clears or alters a mark column once written, in either call order.      *)
(***************************************************************************)
StepKeepsMarks ==
    \A col \in {"enter_long", "exit_long"} :
        Has(col) => col \in DOMAIN dataframe' /\ dataframe'[col] = dataframe[col]

C7_MarksKept == [][StepKeepsMarks]_vars

\* a row marked enter and exit at once
C7_Witness ==
    /\ AllPresent
    /\ \E i \in Positions :
        /\ Cell("enter_long", i) = 1 /\ Cell("exit_long", i) = 1
        /\ EntryRuleAt(i) /\ ExitRuleAt(i)

(***************************************************************************)
(* C8.  No look-ahead: the outputs at rows 0..i are those of the series    *)
(* cut after row i, so two series which agree up to row i have the same    *)
(* indicator, enter and exit cells up to row i.                            *)
(***************************************************************************)
C8_NoLookAhead ==
    AllPresent =>
        \A k \in 1..(Rows(dataframe) - 1) :
            HeadRows(dataframe, k) = Pipeline(HeadRows(CandlesOf(dataframe), k), metadata)

\* the last candle alone brought a mark: the row before it has none
C8_Witness ==
    /\ AllPresent
    /\ Rows(dataframe) > startup_candle_count
    /\ Cell("enter_long", Rows(dataframe)) = 1
    /\ Cell("enter_long", Rows(dataframe) - 1) = NaN
    /\ Cell("exit_long", Rows(dataframe) - 1) = NaN

(***************************************************************************)
(* C9.  Idempotence: evaluating the augmented series again, or the bare    *)
(* candle series afresh, yields the very same indicator, enter and exit    *)
(* columns.                                                                *)
(***************************************************************************)
C9_Idempotent ==
    AllPresent =>
        /\ Pipeline(dataframe, metadata) = dataframe
        /\ Pipeline(CandlesOf(dataframe), metadata) = dataframe

\* a fully evaluated series with an enter mark and an exit mark on other rows
C9_Witness ==
    /\ AllPresent
    /\ \E i, j \in Positions :
        i # j /\ Cell("enter_long", i) = 1 /\ Cell("exit_long", j) = 1

(***************************************************************************)
(* C10.  Every operation leaves the metadata, the candle columns, the      *)
(* number of rows and their order alone; populate_indicators writes only   *)
(* the nine indicator columns, populate_entry_trend only the value 1 into  *)
(* enter_long at rows of the entry rule, populate_exit_trend only the      *)
(* value 1 into exit_long at rows of the exit rule.                        *)
(***************************************************************************)
\* the columns a step wrote: created, or holding another cell than before
Written ==
    {c \in DOMAIN dataframe' : c \notin DOMAIN dataframe \/ dataframe'[c] # dataframe[c]}

\* the step wrote the value 1 into enter_long at the rows of the entry rule,
\* and nothing else
EnterWrittenByRule ==
    \A i \in Positions :
        dataframe'["enter_long"][i] =
            (IF EntryRuleAt(i) THEN 1
             ELSE IF Has("enter_long") THEN Cell("enter_long", i) ELSE NaN)

\* the step wrote the value 1 into exit_long at the rows of the exit rule,
\* and nothing else
ExitWrittenByRule ==
    \A i \in Positions :
        dataframe'["exit_long"][i] =
            (IF ExitRuleAt(i) THEN 1
             ELSE IF Has("exit_long") THEN Cell("exit_long", i) ELSE NaN)

FrameStep ==
    /\ metadata' = metadata
    /\ DOMAIN dataframe \subseteq DOMAIN dataframe'
    /\ \A c \in DOMAIN dataframe' : Len(dataframe'[c]) = Rows(dataframe)
    /\ \A c \in CandleColumns : dataframe'[c] = dataframe[c]
    /\ \/ Written \subseteq IndicatorColumns
       \/ Written = {"enter_long"} /\ EnterWrittenByRule
       \/ Written = {"exit_long"} /\ ExitWrittenByRule

C10_Frame == [][FrameStep]_vars

\* all three operations have written their columns beside an anomalous candle
C10_Witness ==
    /\ AllPresent
    /\ metadata \in [pair : Pairs]
    /\ \E i \in Positions : Cell("volume", i) = 0 /\ CrossedAboveLevelAt("rsi", 30, i)
    /\ \E i \in Positions : Cell("exit_long", i) = NaN

====
